---- MODULE Spec2Model ----
(***************************************************************************)
(* A model of the recursive-descent JSON parser of                         *)
(* src/metalberto/src/common/json.rs.                                      *)
(*                                                                         *)
(* The parser is a deterministic machine over a borrowed byte slice.  The  *)
(* Rust call stack is an explicit stack of frames; one step of the model   *)
(* is one statement of the source that calls a scanner primitive (peek,    *)
(* advance, check) or touches the caret, so a step moves the caret by at   *)
(* most one.  A call is entered in the step that makes it and a callee     *)
(* returns into the continuation its caller left in its frame.  Every call *)
(* site of the source propagates Err with `?`, so an Err ends the parse;   *)
(* a panic (unwrap on a failed conversion, an index out of bounds)         *)
(* unwinds the whole parse as well.                                        *)
(***************************************************************************)
EXTENDS Integers, Sequences, FiniteSets, TLC

\* ------------------------------------------------------------- bytes
LBRACE    == 123
RBRACE    == 125
LBRACKET  == 91
RBRACKET  == 93
QUOTE     == 34
COMMA     == 44
COLON     == 58
BACKSLASH == 92
MINUS     == 45
DOT       == 46
ZERO      == 48
NINE      == 57
SPACE     == 32
TAB       == 9
NEWLINE   == 10
CH_t      == 116
CH_f      == 102
CH_n      == 110
CH_e      == 101
CH_E      == 69

\* the keywords handed to word(): b"true", b"false", b"null"
KwTrue  == <<116, 114, 117, 101>>
KwFalse == <<102, 97, 108, 115, 101>>
KwNull  == <<110, 117, 108, 108>>

\* u8::is_ascii_digit
IsAsciiDigit(b) == ZERO <= b /\ b <= NINE

\* the unary `!` of Rust on a u8: bitwise complement
NotU8(b) == 255 - b

\* ------------------------------------------------------ conversions
\* str::from_utf8 / String::from_utf8: well-formed UTF-8 (one- and two-byte
\* sequences decide it for the bytes the model draws; longer lead bytes need
\* as many continuation bytes)
IsCont(b) == 128 <= b /\ b <= 191

RECURSIVE IsUtf8(_)
IsUtf8(s) ==
    IF s = <<>> THEN TRUE
    ELSE LET b == Head(s) IN
         IF b < 128 THEN IsUtf8(Tail(s))
         ELSE IF 194 <= b /\ b <= 223
              THEN Len(s) >= 2 /\ IsCont(s[2]) /\ IsUtf8(SubSeq(s, 3, Len(s)))
         ELSE IF 224 <= b /\ b <= 239
              THEN Len(s) >= 3 /\ IsCont(s[2]) /\ IsCont(s[3])
                   /\ IsUtf8(SubSeq(s, 4, Len(s)))
         ELSE IF 240 <= b /\ b <= 244
              THEN Len(s) >= 4 /\ IsCont(s[2]) /\ IsCont(s[3]) /\ IsCont(s[4])
                   /\ IsUtf8(SubSeq(s, 5, Len(s)))
         ELSE FALSE

AllDigits(s) == \A i \in 1..Len(s) : IsAsciiDigit(s[i])

RECURSIVE StripLeadingZeros(_)
StripLeadingZeros(s) ==
    IF s # <<>> /\ Head(s) = ZERO THEN StripLeadingZeros(Tail(s)) ELSE s

RECURSIVE StripTrailingZeros(_)
StripTrailingZeros(s) ==
    IF s # <<>> /\ s[Len(s)] = ZERO
    THEN StripTrailingZeros(SubSeq(s, 1, Len(s) - 1)) ELSE s

\* lexicographic s <= t for digit strings of equal length
RECURSIVE DigitsLeq(_, _)
DigitsLeq(s, t) ==
    IF s = <<>> THEN TRUE
    ELSE IF Head(s) < Head(t) THEN TRUE
    ELSE IF Head(s) > Head(t) THEN FALSE
    ELSE DigitsLeq(Tail(s), Tail(t))

\* i64::MAX = 9223372036854775807 and -i64::MIN = 9223372036854775808
I64MaxDigits == <<57,50,50,51,51,55,50,48,51,54,56,53,52,55,55,53,56,48,55>>
I64MinDigits == <<57,50,50,51,51,55,50,48,51,54,56,53,52,55,55,53,56,48,56>>

\* <i64 as FromStr>::from_str: an optional sign, at least one digit, the
\* value in range.  The value is kept as sign and magnitude digits without
\* leading zeros (zero is the empty magnitude).
IsNegative(s) == s # <<>> /\ Head(s) = MINUS
Unsigned(s) == IF s # <<>> /\ (Head(s) = MINUS \/ Head(s) = 43) THEN Tail(s) ELSE s

InI64Range(neg, mag) ==
    \/ Len(mag) < Len(I64MaxDigits)
    \/ Len(mag) = Len(I64MaxDigits)
       /\ DigitsLeq(mag, IF neg THEN I64MinDigits ELSE I64MaxDigits)

I64Of(neg, body) ==
    IF body = <<>> \/ ~AllDigits(body) THEN [ok |-> FALSE]
    ELSE IF ~InI64Range(neg, StripLeadingZeros(body)) THEN [ok |-> FALSE]
    ELSE [ok |-> TRUE, neg |-> neg /\ StripLeadingZeros(body) # <<>>,
          digits |-> StripLeadingZeros(body)]

ParseI64(s) == I64Of(IsNegative(s), Unsigned(s))

RECURSIVE DecimalOf(_)
DecimalOf(s) == IF s = <<>> THEN 0 ELSE 10 * DecimalOf(SubSeq(s, 1, Len(s) - 1)) + (s[Len(s)] - ZERO)

\* the first position of b in s, 0 when there is none
IndexOf(s, b) == IF \E i \in 1..Len(s) : s[i] = b
                 THEN CHOOSE i \in 1..Len(s) : s[i] = b /\ \A j \in 1..(i - 1) : s[j] # b
                 ELSE 0

\* <f64 as FromStr>::from_str on the texts number() can scan:
\*   Number ::= ( Digit+ | Digit+ '.' Digit* | Digit* '.' Digit+ ) Exp?
\*   Exp    ::= ('e' | 'E') Sign? Digit+
\* number() never scans an exponent sign, inf or nan.  The value is the exact
\* decimal sign * mant * 10^exp with mant free of leading and trailing zeros;
\* rounding to the nearest binary64 is not modelled.
ExpPos(body) == IF IndexOf(body, CH_e) # 0 THEN IndexOf(body, CH_e) ELSE IndexOf(body, CH_E)
NumPart(body) == IF ExpPos(body) = 0 THEN body ELSE SubSeq(body, 1, ExpPos(body) - 1)
ExpPart(body) == IF ExpPos(body) = 0 THEN <<>> ELSE SubSeq(body, ExpPos(body) + 1, Len(body))
IntPart(num) == IF IndexOf(num, DOT) = 0 THEN num ELSE SubSeq(num, 1, IndexOf(num, DOT) - 1)
FracPart(num) == IF IndexOf(num, DOT) = 0 THEN <<>> ELSE SubSeq(num, IndexOf(num, DOT) + 1, Len(num))
Mantissa(digits) == StripTrailingZeros(StripLeadingZeros(digits))

F64Of(neg, ip, fp, hasExp, expo) ==
    IF ~AllDigits(ip) \/ ~AllDigits(fp) \/ ~AllDigits(expo) THEN [ok |-> FALSE]
    ELSE IF ip = <<>> /\ fp = <<>> THEN [ok |-> FALSE]
    ELSE IF hasExp /\ expo = <<>> THEN [ok |-> FALSE]
    ELSE [ok |-> TRUE, neg |-> neg, mant |-> Mantissa(ip \o fp),
          exp |-> IF Mantissa(ip \o fp) = <<>> THEN 0
                  ELSE DecimalOf(expo) - Len(fp)
                       + (Len(StripLeadingZeros(ip \o fp)) - Len(Mantissa(ip \o fp)))]

F64Unsigned(neg, body) ==
    F64Of(neg, IntPart(NumPart(body)), FracPart(NumPart(body)), ExpPos(body) # 0, ExpPart(body))

ParseF64(s) == F64Unsigned(IsNegative(s), IF IsNegative(s) THEN Tail(s) ELSE s)

\* ------------------------------------------------------------ state
VARIABLES
    document,   \* Parser.document: the borrowed bytes, never written
    caret,      \* Parser.caret: 0-based byte offset
    line,       \* Parser.line: 0-based line counter
    stack,      \* the call stack, innermost frame first
    status,     \* "running", or how parse_string ended: "ok", "err", "abort"
    result,     \* the Value (ok), the Error (err) or the panic (abort)
    ret,        \* the value the callee that returned last handed to its caller
    peeked,     \* the offset the latest successful peek() read, -1 before any
    blind,      \* the latest caret increment passed a byte peek() had not read
    steps       \* statements executed so far

vars == <<document, caret, line, stack, status, result, ret, peeked, blind, steps>>

\* The parser as one record, for the operators that compute a step.
Now == [document |-> document, caret |-> caret, line |-> line, stack |-> stack,
        status |-> status, result |-> result, ret |-> ret, peeked |-> peeked,
        blind |-> blind, steps |-> steps]

Becomes(q) ==
    /\ document' = q.document
    /\ caret' = q.caret
    /\ line' = q.line
    /\ stack' = q.stack
    /\ status' = q.status
    /\ result' = q.result
    /\ ret' = q.ret
    /\ peeked' = q.peeked
    /\ blind' = q.blind
    /\ steps' = q.steps

NoValue == [type |-> "None", value |-> 0]

\* A frame: the function, the statement it resumes at, and its locals
\* (start: number()/string() `start`, word()'s iterator position and the
\* caret at the head of the current array()/dict() iteration; acc: `array`
\* or `dict`; key: dict()'s `key`; chars: word()'s `characters`).
Frame(fn, pc) == [fn |-> fn, pc |-> pc, start |-> 0, acc |-> <<>>, key |-> <<>>, chars |-> <<>>]

Top(p) == Head(p.stack)
SetTop(p, f) == [p EXCEPT !.stack = <<f>> \o Tail(p.stack)]
Goto(p, pc) == SetTop(p, [Top(p) EXCEPT !.pc = pc])
\* enter a callee; the caller's frame already holds its continuation
Call(p, f) == [p EXCEPT !.stack = <<f>> \o p.stack]

\* a parse_string that insists on having consumed the whole document
Return_WholeDocument(p, v) ==
    IF Len(p.stack) = 1
    THEN IF p.caret < Len(p.document)
         THEN [p EXCEPT !.stack = <<>>, !.status = "err",
                        !.result = [line |-> p.line, error |-> "TrailingBytes", detail |-> <<>>]]
         ELSE [p EXCEPT !.stack = <<>>, !.status = "ok", !.result = v, !.ret = [type |-> "None", value |-> 0]]
    ELSE [p EXCEPT !.stack = Tail(p.stack), !.ret = v]

\* `return Ok(v)`: into the caller, or out of parse_string
Return(p, v) ==
    IF Len(p.stack) = 1
    THEN [p EXCEPT !.stack = <<>>, !.status = "ok", !.result = v, !.ret = NoValue]
    ELSE [p EXCEPT !.stack = Tail(p.stack), !.ret = v]

Running(p) == p.status = "running"

\* Parser::new
new(doc) == [document |-> doc, caret |-> 0, line |-> 0,
             stack |-> <<Frame("parse", "entry")>>, status |-> "running",
             result |-> NoValue, ret |-> NoValue, peeked |-> -1, blind |-> FALSE,
             steps |-> 0]

\* Parser::error, returned through every `?` up to parse_string
error(p, e, detail) ==
    [p EXCEPT !.stack = <<>>, !.status = "err",
              !.result = [line |-> p.line, error |-> e, detail |-> detail]]

\* a panic: unwrap() on Err, or an index or slice out of bounds
Panic(p, why) == [p EXCEPT !.stack = <<>>, !.status = "abort", !.result = [panic |-> why]]

\* `self.caret += 1`
Bump(p) == [p EXCEPT !.caret = p.caret + 1, !.blind = (p.peeked # p.caret)]

\* ------------------------------------------------- scanner primitives
\* Each returns [p: the parser after the call, v: the value of Ok]; the call
\* failed exactly when p is no longer running.
\* peek() with its bounds check off by one (`>` for `>=`)
PeekAtEnd_OffByOne(p) == p.caret > Len(p.document)

PeekAtEnd(p) == p.caret >= Len(p.document)

peek(p) ==
    IF PeekAtEnd(p)
    THEN [p |-> error(p, "UnexpectedEndOfFile", <<>>), v |-> 0]
    ELSE IF p.caret < Len(p.document)
         THEN [p |-> [p EXCEPT !.peeked = p.caret], v |-> p.document[p.caret + 1]]
         ELSE [p |-> Panic(p, "index out of bounds"), v |-> 0]

advance(p) ==
    LET r == peek(p)
    IN  IF ~Running(r.p) THEN r ELSE [p |-> Bump(r.p), v |-> r.v]

check(p, expected) ==
    LET r == peek(p)
    IN  IF ~Running(r.p) THEN [p |-> r.p, v |-> FALSE]
        ELSE IF r.v # expected THEN [p |-> r.p, v |-> FALSE]
        ELSE LET a == advance(r.p)
             IN  [p |-> a.p, v |-> Running(a.p)]

\* &self.document[from..to]
SliceOk(p, from, to) == from <= to /\ to <= Len(p.document)
Slice(p, from, to) == SubSeq(p.document, from + 1, to)

\* skip_whitespace() whose newline arm counts the line and forgets the caret
skip_whitespace_NoAdvance(p) ==
    LET r == peek(p)
    IN  IF ~Running(r.p) THEN r.p
        ELSE IF r.v = SPACE \/ r.v = TAB THEN Bump(r.p)
        ELSE IF r.v = NEWLINE THEN [r.p EXCEPT !.line = p.line + 1]
        ELSE [r.p EXCEPT !.stack = Tail(p.stack)]

\* ------------------------------------------------------ skip_whitespace
\* one iteration of the loop
skip_whitespace(p) ==
    LET r == peek(p)
    IN  IF ~Running(r.p) THEN r.p
        ELSE IF r.v = SPACE \/ r.v = TAB THEN Bump(r.p)
        ELSE IF r.v = NEWLINE THEN [Bump(r.p) EXCEPT !.line = p.line + 1]
        ELSE [r.p EXCEPT !.stack = Tail(p.stack)]

CallWs(p) == Call(p, Frame("skip_whitespace", "loop"))

\* word() that reports the end of the document as an unknown keyword
word_EofIsUnknown(p) ==
    LET f == Top(p)
        a == advance(p)
    IN  IF ~Running(a.p) THEN error(p, "UnknownKeyword", f.chars)
        ELSE IF a.v # f.chars[f.start + 1]
             THEN error(a.p, "UnknownKeyword", f.chars)
        ELSE IF f.start + 1 = Len(f.chars)
             THEN Return(a.p, NoValue)
        ELSE SetTop(a.p, [f EXCEPT !.start = f.start + 1])

\* ---------------------------------------------------------------- word
\* one iteration of `for char in characters.iter()`; the iterator position
\* is the frame's start
word(p) ==
    LET f == Top(p)
        a == advance(p)
    IN  IF ~Running(a.p) THEN a.p
        ELSE IF a.v # f.chars[f.start + 1]
             THEN error(a.p, "UnknownKeyword", f.chars)
        ELSE IF f.start + 1 = Len(f.chars)
             THEN Return(a.p, NoValue)
        ELSE SetTop(a.p, [f EXCEPT !.start = f.start + 1])

CallWord(p, chars) == Call(p, [Frame("word", "loop") EXCEPT !.chars = chars])

\* -------------------------------------------------------------- string
string(p) ==
    LET f == Top(p)
    IN  CASE f.pc = "open" ->
               LET a == advance(p)
               IN  IF ~Running(a.p) THEN a.p
                   ELSE SetTop(a.p, [f EXCEPT !.pc = "quote", !.start = a.p.caret])
          [] f.pc = "quote" ->
               LET c == check(p, QUOTE)
               IN  IF ~Running(c.p) THEN c.p
                   ELSE IF c.v
                        THEN IF ~SliceOk(c.p, f.start, c.p.caret - 1)
                             THEN Panic(c.p, "slice out of bounds")
                             ELSE LET bytes == Slice(c.p, f.start, c.p.caret - 1)
                                  IN  IF IsUtf8(bytes)
                                      THEN Return(c.p, bytes)
                                      ELSE Panic(c.p, "unwrap: from_utf8")
                        ELSE Goto(c.p, "escape")
          [] f.pc = "escape" ->
               LET c == check(p, BACKSLASH)
               IN  IF ~Running(c.p) THEN c.p ELSE Goto(c.p, "skip")
          [] f.pc = "skip" -> Goto(Bump(p), "quote")

CallString(p) == Call(p, Frame("string", "open"))

\* -------------------------------------------------------------- number
\* number() that turns a failed integer conversion into an Err
ToInteger_Recoverable(p, from) ==
    IF ~SliceOk(p, from, p.caret) THEN Panic(p, "slice out of bounds")
    ELSE IF ~ParseI64(Slice(p, from, p.caret)).ok
         THEN error(p, "InvalidInteger", Slice(p, from, p.caret))
    ELSE Return(p, [type |-> "Integer",
                    value |-> [neg |-> ParseI64(Slice(p, from, p.caret)).neg,
                               digits |-> ParseI64(Slice(p, from, p.caret)).digits]])

ToInteger(p, from) ==
    IF ~SliceOk(p, from, p.caret) THEN Panic(p, "slice out of bounds")
    ELSE LET as_str == Slice(p, from, p.caret)
             n == ParseI64(as_str)
         IN  IF ~IsUtf8(as_str) THEN Panic(p, "unwrap: from_utf8")
             ELSE IF ~n.ok THEN Panic(p, "unwrap: parse i64")
             ELSE Return(p, [type |-> "Integer", value |-> [neg |-> n.neg, digits |-> n.digits]])

ToFloat(p, from) ==
    IF ~SliceOk(p, from, p.caret) THEN Panic(p, "slice out of bounds")
    ELSE LET as_str == Slice(p, from, p.caret)
             x == ParseF64(as_str)
         IN  IF ~IsUtf8(as_str) THEN Panic(p, "unwrap: from_utf8")
             ELSE IF ~x.ok THEN Panic(p, "unwrap: parse f64")
             ELSE Return(p, [type |-> "Float",
                             value |-> [neg |-> x.neg, mant |-> x.mant, exp |-> x.exp]])

\* one iteration of `while self.peek()?.is_ascii_digit() { self.advance()?; }`;
\* the loop is left for the statement `next`
DigitLoop(p, next) ==
    LET r == peek(p)
    IN  IF ~Running(r.p) THEN r.p
        ELSE IF IsAsciiDigit(r.v) THEN advance(r.p).p
        ELSE Goto(r.p, next)

number(p) ==
    LET f == Top(p)
    IN  CASE f.pc = "sign" ->
               LET c == check(p, MINUS)
               IN  IF ~Running(c.p) THEN c.p ELSE Goto(c.p, "int")
          [] f.pc = "int" ->
               LET r == peek(p)
               IN  IF ~Running(r.p) THEN r.p
                   ELSE IF r.v = ZERO
                        THEN LET a == advance(r.p)
                             IN  IF ~Running(a.p) THEN a.p ELSE Goto(a.p, "dot")
                        ELSE Goto(r.p, "digits")
          [] f.pc = "digits" -> DigitLoop(p, "dot")
          [] f.pc = "dot" ->
               LET c == check(p, DOT)
               IN  IF ~Running(c.p) THEN c.p
                   ELSE IF ~c.v THEN ToInteger(c.p, f.start)
                   ELSE Goto(c.p, "frac")
          [] f.pc = "frac" -> DigitLoop(p, "exp")
          [] f.pc = "exp" ->
               LET c == check(p, CH_e)
               IN  IF ~Running(c.p) THEN c.p
                   ELSE IF c.v THEN Goto(c.p, "expdigits")
                   ELSE LET d == check(c.p, CH_E)
                        IN  IF ~Running(d.p) THEN d.p
                            ELSE IF d.v THEN Goto(d.p, "expdigits")
                            ELSE ToFloat(d.p, f.start)
          [] f.pc = "expdigits" ->
               LET r == peek(p)
               IN  IF ~Running(r.p) THEN r.p
                   ELSE IF IsAsciiDigit(r.v) THEN advance(r.p).p
                   ELSE ToFloat(r.p, f.start)

\* --------------------------------------------------------------- array
CallParse(p) == Call(p, Frame("parse", "entry"))

array(p) ==
    LET f == Top(p)
    IN  CASE f.pc = "open" ->
               LET a == advance(p)
               IN  IF ~Running(a.p) THEN a.p ELSE CallWs(Goto(a.p, "head"))
          [] f.pc = "head" ->
               LET c == check(p, RBRACKET)
               IN  IF ~Running(c.p) THEN c.p
                   ELSE IF c.v THEN Return(c.p, [type |-> "Array", value |-> f.acc])
                   ELSE CallParse(SetTop(c.p, [f EXCEPT !.pc = "push", !.start = c.p.caret]))
          [] f.pc = "push" ->
               CallWs(SetTop(p, [f EXCEPT !.pc = "sep", !.acc = Append(f.acc, p.ret)]))
          [] f.pc = "sep" ->
               LET r == peek(p)
               IN  IF ~Running(r.p) THEN r.p
                   ELSE IF r.v # RBRACKET
                        THEN LET c == check(r.p, COMMA)
                             IN  IF ~Running(c.p) THEN c.p
                                 ELSE IF ~c.v THEN error(c.p, "ExpectedArrayCloseOrComma", <<>>)
                                 ELSE CallWs(Goto(c.p, "head"))
                        ELSE CallWs(Goto(r.p, "head"))

\* ---------------------------------------------------------------- dict
\* `!self.peek()? == b'"'`: the unary `!` binds tighter than `==`
IsNotKeyStart(b) == NotU8(b) = QUOTE

dict(p) ==
    LET f == Top(p)
    IN  CASE f.pc = "open" ->
               LET a == advance(p)
               IN  IF ~Running(a.p) THEN a.p ELSE CallWs(Goto(a.p, "head"))
          [] f.pc = "head" ->
               LET c == check(p, RBRACE)
               IN  IF ~Running(c.p) THEN c.p
                   ELSE IF c.v THEN Return(c.p, [type |-> "Dict", value |-> f.acc])
                   ELSE LET r == peek(c.p)
                        IN  IF ~Running(r.p) THEN r.p
                            ELSE IF IsNotKeyStart(r.v) THEN error(r.p, "ExpectedDictKey", <<>>)
                            ELSE CallString(SetTop(r.p, [f EXCEPT !.pc = "key", !.start = r.p.caret]))
          [] f.pc = "key" ->
               CallWs(SetTop(p, [f EXCEPT !.pc = "colon", !.key = p.ret]))
          [] f.pc = "colon" ->
               LET c == check(p, COLON)
               IN  IF ~Running(c.p) THEN c.p
                   ELSE IF ~c.v THEN error(c.p, "ExpectedDictColonAfterKey", f.key)
                   ELSE CallWs(Goto(c.p, "value"))
          [] f.pc = "value" -> CallParse(Goto(p, "insert"))
          [] f.pc = "insert" ->
               CallWs(SetTop(p, [f EXCEPT !.pc = "sep", !.acc = (f.key :> p.ret) @@ f.acc]))
          [] f.pc = "sep" ->
               LET r == peek(p)
               IN  IF ~Running(r.p) THEN r.p
                   ELSE IF r.v # RBRACE
                        THEN LET c == check(r.p, COMMA)
                             IN  IF ~Running(c.p) THEN c.p
                                 ELSE IF ~c.v THEN error(c.p, "ExpectedDictCloseOrComma", <<>>)
                                 ELSE CallWs(Goto(c.p, "head"))
                        ELSE CallWs(Goto(r.p, "head"))

\* --------------------------------------------------------------- parse
\* self.dict(), self.array() and self.number() are tail calls: their result
\* is parse()'s result, so their frame takes the place of parse()'s.
parse(p) ==
    LET f == Top(p)
    IN  CASE f.pc = "entry" -> CallWs(Goto(p, "dispatch"))
          [] f.pc = "dispatch" ->
               LET r == peek(p)
               IN  IF ~Running(r.p) THEN r.p
                   ELSE CASE r.v = LBRACE   -> SetTop(r.p, Frame("dict", "open"))
                          [] r.v = LBRACKET -> SetTop(r.p, Frame("array", "open"))
                          [] r.v = QUOTE    -> CallString(Goto(r.p, "string"))
                          [] r.v = CH_t     -> CallWord(Goto(r.p, "true"), KwTrue)
                          [] r.v = CH_f     -> CallWord(Goto(r.p, "false"), KwFalse)
                          [] r.v = CH_n     -> CallWord(Goto(r.p, "null"), KwNull)
                          [] OTHER          ->
                               SetTop(r.p, [Frame("number", "sign") EXCEPT !.start = r.p.caret])
          [] f.pc = "string" -> Return(p, [type |-> "String", value |-> p.ret])
          [] f.pc = "true"   -> Return(p, [type |-> "Boolean", value |-> TRUE])
          [] f.pc = "false"  -> Return(p, [type |-> "Boolean", value |-> FALSE])
          [] f.pc = "null"   -> Return(p, [type |-> "Null", value |-> 0])

\* ---------------------------------------------------- the whole parser
\* one statement of the function on top of the stack
Step(p) ==
    LET fn == Top(p).fn
        q  == CASE fn = "parse"           -> parse(p)
                [] fn = "array"           -> array(p)
                [] fn = "dict"            -> dict(p)
                [] fn = "string"          -> string(p)
                [] fn = "number"          -> number(p)
                [] fn = "word"            -> word(p)
                [] fn = "skip_whitespace" -> skip_whitespace(p)
    IN  [q EXCEPT !.steps = p.steps + 1]

RECURSIVE Run(_)
Run(p) == IF Running(p) THEN Run(Step(p)) ELSE p

\* parse_string: the parser run to its end on a document
parse_string(doc) == Run(new(doc))

\* ----------------------------------------------------------- documents
\* Documents longer than MaxLen that the bounded enumeration cannot reach:
\* the examples of the specification and the keyword, number, escape and
\* multi-line cases.
Samples == {
    <<116,114,117,101>>,    \* true
    <<102,97,108,115,101>>,    \* false
    <<110,117,108,108>>,    \* null
    <<110,117,108>>,    \* nul
    <<84,114,117,101>>,    \* True
    <<116,114,117>>,    \* tru
    <<110,117,108,120>>,    \* nulx
    <<110>>,    \* n
    <<91,116,114,117,101,44,32,102,97,108,115,101,93>>,    \* [true, false]
    <<91,110,117,108,108,93>>,    \* [null]
    <<91,110,117,108,93>>,    \* [nul]
    <<91,84,114,117,101,93>>,    \* [True]
    <<91,116,114,117>>,    \* [tru
    <<34,97,98,99,34>>,    \* "abc"
    <<34,97,98,99>>,    \* "abc
    <<34,97,92,34,98,34>>,    \* "a\\"b"
    <<34,97,92>>,    \* "a\\
    <<34,221,144,34>>,    \* "\u0750"
    <<34,92,221,144,34>>,    \* "\\\u0750"
    <<91,49,44,93>>,    \* [1,]
    <<123,34,97,34,58,49,44,125>>,    \* {"a":1,}
    <<91,49>>,    \* [1
    <<91,49,93>>,    \* [1]
    <<123,34,97,34,58,49,125>>,    \* {"a":1}
    <<123,34,97,34,32,49,125>>,    \* {"a" 1}
    <<123,34,97,34,58,49,44,34,97,34,58,50,125>>,    \* {"a":1,"a":2}
    <<123,34,97,34,58,49,32,34,98,34,58,50,125>>,    \* {"a":1 "b":2}
    <<91,49,32,50,93>>,    \* [1 2]
    <<49>>,    \* 1
    <<49,32>>,    \* 1 
    <<49,50>>,    \* 12
    <<45,49,46,53,101,51,32>>,    \* -1.5e3 
    <<91,49,46,53,69,51,93>>,    \* [1.5E3]
    <<91,50,46,53,93>>,    \* [2.5]
    <<91,45,48,93>>,    \* [-0]
    <<48,49,50,51,32>>,    \* 0123 
    <<91,49,46,101,93>>,    \* [1.e]
    <<91,49,101,53,93>>,    \* [1e5]
    <<91,45,46,53,93>>,    \* [-.5]
    <<91,46,93>>,    \* [.]
    <<91,45,93>>,    \* [-]
    <<91,49,46,53,48,101,48,50,44,48,46,48,93>>,    \* [1.50e02,0.0]
    <<57,50,50,51,51,55,50,48,51,54,56,53,52,55,55,53,56,48,55,32>>,    \* 9223372036854775807 
    <<57,50,50,51,51,55,50,48,51,54,56,53,52,55,55,53,56,48,56,32>>,    \* 9223372036854775808 
    <<45,57,50,50,51,51,55,50,48,51,54,56,53,52,55,55,53,56,48,56,32>>,    \* -9223372036854775808 
    <<123,34,120,34,58,32,91,49,44,32,50,46,53,44,32,34,121,34,44,32,116,114,117,101,44,32,110,117,108,108,44,32,123,34,122,34,58,32,45,51,125,93,125>>,    \* {"x": [1, 2.5, "y", true, null, {"z": -3}]}
    <<91,34,10,34,120>>,    \* ["\n"x
    <<91,34,97,92,10,98,34,125>>,    \* ["a\\\nb"}
    <<32,10,9,91,10,93>>,    \*  \n\t[\n]
    <<10,10,123,10,34,107,34,10,58,10,91,10,93,10,44,10,34,108,34,10,49>>,    \* \n\n{\n"k"\n:\n[\n]\n,\n"l"\n1
    <<123,221,144>>,    \* {\u0750
    <<123,120,34,58,49,125>>,    \* {x":1}
    <<123,49,125>>,    \* {1}
    <<123,32,125>>,    \* { }
    <<91,91,93,44,32,123,125,93>>,    \* [[], {}]
    <<91,93,120>>,    \* []x
    <<123,125,120>>,    \* {}x
    <<34,115,34,120>>,    \* "s"x
    <<91,91,49,44,32,50,93,44,32,123,34,107,34,58,32,91,110,117,108,108,93,125,93>>,    \* [[1, 2], {"k": [null]}]
    <<9,91,32,49,32,44,9,50,32,93>>,    \* \t[ 1 ,\t2 ]
    <<91,49,44,49,44,49,44,49,44,49,44,49,93>>    \* [1,1,1,1,1,1]
    }

\* the bytes the bounded enumeration draws: [ ] { } " , : \ LF - 0 1 . e n
\* and the two bytes of U+0750, whose lead byte 0xDD is the complement of `"`
Alphabet == {LBRACKET, RBRACKET, LBRACE, RBRACE, QUOTE, COMMA, COLON, BACKSLASH,
             NEWLINE, MINUS, ZERO, 49, DOT, CH_e, CH_n, 221, 144}

MaxLen == 3

\* parse_string takes a &String, which is well-formed UTF-8
Documents ==
    {d \in (UNION {[1..n -> Alphabet] : n \in 0..MaxLen}) \cup Samples : IsUtf8(d)}

\* ------------------------------------------------------------- actions
Init ==
    /\ document \in Documents
    /\ caret = 0
    /\ line = 0
    /\ stack = <<Frame("parse", "entry")>>
    /\ status = "running"
    /\ result = NoValue
    /\ ret = NoValue
    /\ peeked = -1
    /\ blind = FALSE
    /\ steps = 0

On(fn) == status = "running" /\ Head(stack).fn = fn

Parse          == On("parse") /\ \E q \in {Step(Now)} : Becomes(q)
Array          == On("array") /\ \E q \in {Step(Now)} : Becomes(q)
Dict           == On("dict") /\ \E q \in {Step(Now)} : Becomes(q)
String         == On("string") /\ \E q \in {Step(Now)} : Becomes(q)
Number         == On("number") /\ \E q \in {Step(Now)} : Becomes(q)
Word           == On("word") /\ \E q \in {Step(Now)} : Becomes(q)
SkipWhitespace == On("skip_whitespace") /\ \E q \in {Step(Now)} : Becomes(q)

Next == Parse \/ Array \/ Dict \/ String \/ Number \/ Word \/ SkipWhitespace

Spec == Init /\ [][Next]_vars

\* ============================================================== claims
Done == status # "running"
IsWhitespace(b) == b = SPACE \/ b = TAB \/ b = NEWLINE
Prefix(d, n) == SubSeq(d, 1, n)
Failed(e) == status = "err" /\ result.error = e

\* the number of newline bytes among the first n bytes of d
RECURSIVE Newlines(_, _)
Newlines(d, n) ==
    IF n = 0 THEN 0 ELSE Newlines(d, n - 1) + (IF d[n] = NEWLINE THEN 1 ELSE 0)

Min(a, b) == IF a <= b THEN a ELSE b

\* ------------------------------------------------------------------ C1
\* The document ends with a comma, optional whitespace and a closing `]` or
\* `}`.  When the parse consumes the whole document as one value, that last
\* byte closes an array or object and the comma before it is a separator.
TrailingCommaDoc(d) ==
    /\ Len(d) >= 2
    /\ d[Len(d)] \in {RBRACKET, RBRACE}
    /\ \E i \in 1..(Len(d) - 1) :
          /\ d[i] = COMMA
          /\ \A j \in (i + 1)..(Len(d) - 1) : IsWhitespace(d[j])

\* C1: a trailing comma before a closing bracket or brace is rejected:
\* parse_string never returns an Array or a Dict for a text whose closing
\* `]` or `}` directly follows a comma.  (The claim also asks for an Error;
\* this is the half of it that no abort can excuse.)
C1_TrailingCommaRejected ==
    (Done /\ TrailingCommaDoc(document))
        => ~(status = "ok" /\ caret = Len(document) /\ result.type \in {"Array", "Dict"})

\* ------------------------------------------------------------------ C2
IsIntegerText(d) ==
    LET body == IF d # <<>> /\ Head(d) = MINUS THEN Tail(d) ELSE d
    IN  /\ body # <<>>
        /\ AllDigits(body)
        /\ (Head(body) = ZERO => Len(body) = 1)

\* a quoted string without escapes
IsStringText(d) ==
    /\ Len(d) >= 2
    /\ d[1] = QUOTE
    /\ d[Len(d)] = QUOTE
    /\ \A i \in 2..(Len(d) - 1) : d[i] # QUOTE /\ d[i] # BACKSLASH

\* the type of the one well-formed literal the document consists of
LiteralType(d) ==
    CASE d = KwTrue \/ d = KwFalse -> "Boolean"
      [] d = KwNull                -> "Null"
      [] IsStringText(d)           -> "String"
      [] IsIntegerText(d)          -> "Integer"
      [] d = <<LBRACKET, RBRACKET>> -> "Array"
      [] d = <<LBRACE, RBRACE>>    -> "Dict"
      [] OTHER                     -> "none"

\* C2: a document that consists solely of one well-formed literal, with no
\* byte after it, parses to a Value of the literal's type.
C2_LiteralParses ==
    (Done /\ LiteralType(document) # "none")
        => (status = "ok" /\ result.type = LiteralType(document))

\* ------------------------------------------------------------------ C3
\* C3: truncated input fails with UnexpectedEndOfFile and nothing else: when
\* parse_string succeeds with final caret k, every proper prefix of the first
\* k bytes (that is a String) fails with UnexpectedEndOfFile.
C3_TruncatedIsEof ==
    status = "ok" =>
        \A n \in 0..(caret - 1) :
            IsUtf8(Prefix(document, n)) =>
                /\ parse_string(Prefix(document, n)).status = "err"
                /\ parse_string(Prefix(document, n)).result.error = "UnexpectedEndOfFile"

\* an object with a key and a nested value parsed to its last byte, so that
\* its prefixes end in every routine
C3_Witness ==
    /\ status = "ok"
    /\ result.type = "Dict"
    /\ caret >= 7
    /\ \E k \in DOMAIN result.value : result.value[k].type = "Array"

\* ------------------------------------------------------------------ C4
\* C4: at a key position of dict(), a first non-whitespace byte that is
\* neither `}` nor `"` makes dict() return ExpectedDictKey, without consuming
\* the byte and without calling string().
C4_ExpectedDictKey ==
    [][(/\ On("dict")
        /\ Head(stack).pc = "head"
        /\ caret < Len(document)
        /\ document[caret + 1] \notin {RBRACE, QUOTE})
          => (status' = "err" /\ result'.error = "ExpectedDictKey" /\ caret' = caret)]_vars

\* ------------------------------------------------------------------ C5
IsLetter(b) == (65 <= b /\ b <= 90) \/ (97 <= b /\ b <= 122)
IsProperPrefixOf(d, w) == Len(d) < Len(w) /\ d = Prefix(w, Len(d))

\* the document is one bare word that is no keyword and no truncated keyword
UnknownWordDoc(d) ==
    /\ d # <<>>
    /\ \A i \in 1..Len(d) : IsLetter(d[i])
    /\ d \notin {KwTrue, KwFalse, KwNull}
    /\ ~IsProperPrefixOf(d, KwTrue)
    /\ ~IsProperPrefixOf(d, KwFalse)
    /\ ~IsProperPrefixOf(d, KwNull)

\* C5: an unknown bare-word literal fails with UnknownKeyword, not with
\* another error kind and not with an abort.
C5_UnknownKeyword ==
    (Done /\ UnknownWordDoc(document)) => Failed("UnknownKeyword")

\* ------------------------------------------------------------------ C6
\* C6: the line of every Error is the number of newline bytes the parser
\* consumed before the failure point.
C6_ErrorLine ==
    status = "err" => result.line = Newlines(document, Min(caret, Len(document)))

\* ------------------------------------------------------------------ C7
BoundsPanic ==
    status = "abort" /\ result.panic \in {"index out of bounds", "slice out of bounds"}

\* C7 as claimed: caret never decreases, every increment of caret consumes a
\* byte that peek inspected immediately before, and the document is never
\* indexed or sliced out of bounds.
C7_CaretInspected ==
    [][caret' >= caret /\ (caret' # caret => ~blind') /\ ~BoundsPanic']_vars

\* C7 as amended: caret never decreases and a statement moves it by at most
\* one; an increment consumes a byte peek inspected immediately before,
\* except the `self.caret += 1` of string() after a consumed backslash, which
\* passes one byte unread and may leave caret at document.len() + 1; the
\* document is never indexed or sliced out of bounds.
C7_CaretAmended ==
    [][/\ caret' >= caret
       /\ caret' <= caret + 1
       /\ caret' <= Len(document) + 1
       /\ (caret' # caret /\ blind')
            => (/\ On("string")
                /\ Head(stack).pc = "skip"
                /\ caret >= 1
                /\ caret <= Len(document)
                /\ document[caret] = BACKSLASH)
       /\ ~BoundsPanic']_vars

\* a string with an escape parsed to its end, and one whose escape is the
\* last byte of the document
C7_Witness ==
    /\ blind
    /\ caret = Len(document) + 1
    /\ Len(stack) >= 1
    /\ Head(stack).fn = "string"

\* ------------------------------------------------------------------ C8
StartsNumber(b) == b = MINUS \/ b = DOT \/ IsAsciiDigit(b)

\* the byte parse() dispatches on is at caret
AtDispatch == On("parse") /\ Head(stack).pc = "dispatch" /\ caret < Len(document)

StepBound(n) == 7 * n + 4

\* C9: parse_string terminates on every finite document: the number of
\* statements executed is bounded by the document length (every statement
\* counts, so a loop that goes round without consuming breaks the bound),
\* caret never exceeds document.len() + 1, and an iteration of the array and
\* dict loops that goes round has consumed at least one byte.
C9_Terminates ==
    /\ steps <= StepBound(Len(document))
    /\ caret <= Len(document) + 1
    /\ (status = "running" /\ Head(stack).fn \in {"array", "dict"}
          /\ Head(stack).pc \in {"push", "key"})
         => caret > Head(stack).start

\* a nested document parsed to its end
C9_Witness ==
    /\ status = "ok"
    /\ steps >= 40
    /\ result.type = "Array"

\* ----------------------------------------------------------------- C10
\* C10: parse_string stops at the end of the first complete value: when it
\* succeeds on a document d, it succeeds on d followed by any bytes with the
\* same Value, caret and line.  Here the document is d followed by the bytes
\* after its first n.
C10_IgnoresRest ==
    Done =>
        \A n \in 0..Len(document) :
            (IsUtf8(Prefix(document, n)) /\ parse_string(Prefix(document, n)).status = "ok")
                => /\ status = "ok"
                   /\ caret = parse_string(Prefix(document, n)).caret
                   /\ line = parse_string(Prefix(document, n)).line
                   /\ result = parse_string(Prefix(document, n)).result

\* a value followed by a byte that is no whitespace and is never looked at
C10_Witness ==
    /\ status = "ok"
    /\ caret + 1 < Len(document)
    /\ ~IsWhitespace(document[caret + 1])
    /\ ~IsWhitespace(document[caret + 2])

====
